---- MODULE Spec2Model ----
(***************************************************************************)
(* Task-augmented tool invocation of mcp-go: the task tool adaptors of     *)
(* server/task_tool.go, the typed handler binders, and the espresso        *)
(* example (handler, worker goroutine, Task Manager collaborator).         *)
(***************************************************************************)
EXTENDS Integers, Sequences, FiniteSets, TLC

VARIABLES
    \* ---- NewTaskToolHandlerMiddlewareAdaptor: one adapted handler ----
    mwKind,       \* behaviour of targetMiddleware (parameter of the adaptor)
    nextMode,     \* behaviour class of next (parameter of the adaptor)
    taskResult,   \* the slot allocated at task_tool.go:49, shared by all calls
    cpc,          \* per caller: position in the adapted handler
    callNo,       \* per caller: number of the call in progress (0: none)
    nextOut,      \* per caller: what next returned to the wrapper
    wrapOut,      \* per caller: what the wrapper handed to the legacy middleware
    chainOut,     \* per caller: what adapted(ctx, request) returned
    out,          \* per caller: what the adapted handler returned
    overlapped,   \* per caller: numbers of the calls in progress during this one
    issued,       \* number of calls started so far
    \* ---- NewTaskToolAfterHookAdaptor ----
    hookTrace,    \* one record per adaptor invocation: input, legacy hook calls
    \* ---- espresso example: handler, worker goroutine, Task Manager ----
    eargs,        \* EspressoArgs of the request (Roast, Recipient)
    hpc,          \* position of espressoHandler
    hret,         \* what espressoHandler returned
    wpc,          \* position of the makeEspresso goroutine
    recipient,    \* the goroutine's args.Recipient
    elicited,     \* the ElicitationResult RequestInput returned
    payload,      \* the TaskPayloadResult built at part_001:178
    exit,         \* log.Fatalf: where and why the process exited
    taskStatus,   \* Task Manager: status of the task
    reaped,       \* Task Manager: the task was reaped
    ctxDone,      \* the task context is cancelled
    cancelAt,     \* where the goroutine was when the task was cancelled
    tmCalls,      \* the Task Manager operations issued, in order
    \* ---- typed handler binders, NewTaskToolAdaptor, ValidateAnyToolResult ----
    runs          \* one record per call: operation, inputs, return, handler calls

adaptorVars == <<mwKind, nextMode, taskResult, cpc, callNo, nextOut, wrapOut,
                 chainOut, out, overlapped, issued>>
hookVars == <<hookTrace>>
espressoVars == <<eargs, hpc, hret, wpc, recipient, elicited, payload, exit,
                  taskStatus, reaped, ctxDone, cancelAt, tmCalls>>
handlerVars == <<runs>>
notAdaptorVars == <<hookVars, espressoVars, handlerVars>>
notHookVars == <<adaptorVars, espressoVars, handlerVars>>
notEspressoVars == <<adaptorVars, hookVars, handlerVars>>
notHandlerVars == <<adaptorVars, hookVars, espressoVars>>

\* ------------------------------------------------------------------ bounds
NumCallers == 2
MaxCalls == 2
MaxHookRuns == 3
MaxRuns == 2

Callers == 1..NumCallers

\* ------------------------------------------------------------------ values
NoErr == "nil"
NilPtr == [type |-> "nil", by |-> "none", n |-> 0]

\* mcp.CallToolResult value; (by, n) identifies its content
CallToolResult(by, n) == [type |-> "CallToolResult", by |-> by, n |-> n]
\* mcp.CreateTaskResult value; n identifies the task
CreateTaskResult(n) == [type |-> "CreateTaskResult", by |-> "handler", n |-> n]
\* a *mcp.CallToolResult stored in the AnyToolResult interface
PtrCallToolResult(n) == [type |-> "*CallToolResult", by |-> "handler", n |-> n]
\* any other dynamic type stored in the AnyToolResult interface
OtherResult(n) == [type |-> "other", by |-> "handler", n |-> n]

\* &mcp.CallToolResult{} of task_tool.go:64
Placeholder == CallToolResult("placeholder", 0)
\* the result a result-replacing legacy middleware returns for call n
MwResult(n) == CallToolResult("middleware", n)

Ret(res, err) == [res |-> res, err |-> err]
NoRet == Ret(NilPtr, "none")

\* ------------------------------------------------- typed handler binders
\* mcp.NewToolResultError(text): the *CallToolResult it returns, flagged IsError
NewToolResultError(text, n) == CallToolResult(text, n)
ErrorTexts == {"failed to bind arguments", "tool execution failed"}
IsErrorResult(r) == r.by \in ErrorTexts

\* the TResult value a structured handler returns for call n
StructuredValue(n) == [type |-> "TResult", by |-> "handler", n |-> n]
\* mcp.NewToolResultStructuredOnly(result): the *CallToolResult it returns
NewToolResultStructuredOnly(v) == CallToolResult("structured", v.n)

\* var x AnyToolResult = *p: the interface holds the CallToolResult value
AnyOfValue(p) == [p EXCEPT !.type = "CallToolResult"]
\* var x AnyToolResult = p: the interface holds the *CallToolResult pointer
AnyOfPointer(p) == [p EXCEPT !.type = "*CallToolResult"]

\* what a call returned and how often it invoked the wrapped handler
Run(ret, invoked) == [ret |-> ret, invoked |-> invoked]

\* what a TypedToolHandlerFunc / ToolHandlerFunc may return for call n
LegacyReturns(n) ==
    {Ret(CallToolResult("handler", n), NoErr),
     Ret(NilPtr, NoErr),
     Ret(NilPtr, "handlerErr"),
     Ret(CallToolResult("handler", n), "handlerErr")}

\* what a StructuredToolHandlerFunc may return for call n
StructuredReturns(n) ==
    {Ret(StructuredValue(n), NoErr), Ret(StructuredValue(n), "handlerErr")}

\* part_000:18-26
TypedToolHandler(bindOk, h, n) ==
    IF ~bindOk
    THEN Run(Ret(NewToolResultError("failed to bind arguments", n), NoErr), 0)
    ELSE Run(h, 1)

\* mutant: the wrapped handler runs although the arguments did not bind
TypedTaskToolHandler_IgnoresBindError(bindOk, h, n) == Run(h, 1)

\* part_000:29-38
TypedTaskToolHandler(bindOk, h, n) ==
    IF ~bindOk
    THEN Run(Ret(AnyOfValue(NewToolResultError("failed to bind arguments", n)),
                 NoErr), 0)
    ELSE Run(h, 1)

\* part_000:43-57
StructuredToolHandler(bindOk, h, n) ==
    IF ~bindOk
    THEN Run(Ret(NewToolResultError("failed to bind arguments", n), NoErr), 0)
    ELSE IF h.err # NoErr
    THEN Run(Ret(NewToolResultError("tool execution failed", n), NoErr), 1)
    ELSE Run(Ret(NewToolResultStructuredOnly(h.res), NoErr), 1)

\* part_000:62-80
StructuredTaskToolHandler(bindOk, h, n) ==
    IF ~bindOk
    THEN Run(Ret(AnyOfValue(NewToolResultError("failed to bind arguments", n)),
                 NoErr), 0)
    ELSE IF h.err # NoErr
    THEN Run(Ret(AnyOfValue(NewToolResultError("tool execution failed", n)),
                 NoErr), 1)
    ELSE Run(Ret(AnyOfPointer(NewToolResultStructuredOnly(h.res)), NoErr), 1)

\* ------------------------------------- forward adaptor and result validator
\* mutant: a handler that returns no result and no error is passed through
TaskToolAdaptor_NoNilCheck(h) ==
    IF h.err # NoErr THEN Run(Ret(NilPtr, h.err), 1)
    ELSE Run(Ret(h.res, NoErr), 1)

\* task_tool.go:33-45
TaskToolAdaptor(h) ==
    IF h.err # NoErr THEN Run(Ret(NilPtr, h.err), 1)
    ELSE IF h.res = NilPtr THEN Run(Ret(NilPtr, "ErrInvalidToolResult"), 1)
    ELSE Run(Ret(AnyOfValue(h.res), NoErr), 1)

\* mutant: a *CallToolResult in the interface is accepted too
ValidateAnyToolResult_AcceptsPointer(value) ==
    IF value = NilPtr THEN "ErrInvalidToolResult"
    ELSE IF value.type \in {"CallToolResult", "CreateTaskResult", "*CallToolResult"}
    THEN NoErr
    ELSE "ErrInvalidToolResult"

\* task_tool.go:11-22
ValidateAnyToolResult(value) ==
    IF value = NilPtr THEN "ErrInvalidToolResult"
    ELSE IF value.type \in {"CallToolResult", "CreateTaskResult"} THEN NoErr
    ELSE "ErrInvalidToolResult"

\* What next may return for call n. A Go handler returns a result or an
\* error; "immediate" is a handler that always answers with a CallToolResult,
\* "structured" is a handler built by NewStructuredTaskToolHandler.
NextReturns(mode, n) ==
    IF mode = "immediate"
    THEN {Ret(CallToolResult("handler", n), NoErr), Ret(NilPtr, "handlerErr")}
    ELSE IF mode = "structured"
    THEN {StructuredTaskToolHandler(bindOk, h, n).ret :
              bindOk \in BOOLEAN, h \in StructuredReturns(n)}
    ELSE {Ret(CallToolResult("handler", n), NoErr),
          Ret(CreateTaskResult(n), NoErr),
          Ret(PtrCallToolResult(n), NoErr),
          Ret(OtherResult(n), NoErr),
          Ret(NilPtr, NoErr),
          Ret(NilPtr, "handlerErr")}

\* --------------------------------------------- middleware adaptor (pure)
\* mutant: the wrapper hands the placeholder to the middleware in every case
WrapperReturn_AlwaysPlaceholder(any) ==
    IF any.err # NoErr THEN Ret(NilPtr, any.err) ELSE Ret(Placeholder, NoErr)

\* task_tool.go:50-65, the value the synchronous-shaped wrapper returns
WrapperReturn(any) ==
    IF any.err # NoErr THEN Ret(NilPtr, any.err)
    ELSE IF any.res.type = "CallToolResult" THEN Ret(any.res, NoErr)
    ELSE Ret(Placeholder, NoErr)

\* task_tool.go:55-62, the slot after the wrapper ran
WrapperSlot(any, slot) ==
    IF any.err = NoErr /\ any.res.type = "CreateTaskResult"
    THEN any.res
    ELSE slot

\* The legacy middleware wrapped around the wrapper: what it returns given
\* what the wrapper returned (kind "skip" never calls the wrapper).
MiddlewareReturn(kind, wrapped, n) ==
    CASE kind = "pass"    -> wrapped
      [] kind = "replace" -> IF wrapped.err # NoErr THEN wrapped
                             ELSE Ret(MwResult(n), NoErr)
      [] kind = "nil"     -> IF wrapped.err # NoErr THEN wrapped
                             ELSE Ret(NilPtr, NoErr)
      [] kind = "fail"    -> Ret(NilPtr, "middlewareErr")
      [] kind = "skip"    -> Ret(MwResult(n), NoErr)

\* task_tool.go:66-80, the adapted handler's return
AdaptedReturn(chain, slot) ==
    IF chain.err # NoErr THEN Ret(NilPtr, chain.err)
    ELSE IF slot # NilPtr THEN Ret(slot, NoErr)
    ELSE IF chain.res = NilPtr THEN Ret(NilPtr, "ErrInvalidToolResult")
    ELSE Ret(chain.res, NoErr)

\* ------------------------------------------- middleware adaptor (actions)
MiddlewareKinds == {"pass", "replace", "nil", "fail", "skip"}
NextModes == {"immediate", "structured", "any"}

InitAdaptor ==
    /\ mwKind = "none"
    /\ nextMode = "none"
    /\ taskResult = NilPtr
    /\ cpc = [c \in Callers |-> "idle"]
    /\ callNo = [c \in Callers |-> 0]
    /\ nextOut = [c \in Callers |-> NoRet]
    /\ wrapOut = [c \in Callers |-> NoRet]
    /\ chainOut = [c \in Callers |-> NoRet]
    /\ out = [c \in Callers |-> NoRet]
    /\ overlapped = [c \in Callers |-> {}]
    /\ issued = 0

Active(c) == cpc[c] \in {"middleware", "wrapped", "chained"}

\* task_tool.go:47-49, NewTaskToolHandlerMiddlewareAdaptor(mw)(next) builds the
\* one handler all callers share; the slot is allocated here, once
NewAdaptor ==
    /\ mwKind = "none"
    /\ mwKind' \in MiddlewareKinds
    /\ nextMode' \in NextModes
    /\ taskResult' = NilPtr
    /\ UNCHANGED <<cpc, callNo, nextOut, wrapOut, chainOut, out, overlapped, issued>>
    /\ UNCHANGED notAdaptorVars

\* task_tool.go:67, the caller enters adapted(ctx, request)
CallAdapted(c) ==
    /\ mwKind # "none"
    /\ cpc[c] \in {"idle", "returned"}
    /\ issued < MaxCalls
    /\ issued' = issued + 1
    /\ callNo' = [callNo EXCEPT ![c] = issued + 1]
    /\ cpc' = [cpc EXCEPT ![c] = "middleware"]
    /\ nextOut' = [nextOut EXCEPT ![c] = NoRet]
    /\ wrapOut' = [wrapOut EXCEPT ![c] = NoRet]
    /\ chainOut' = [chainOut EXCEPT ![c] = NoRet]
    /\ out' = [out EXCEPT ![c] = NoRet]
    /\ overlapped' = [d \in Callers |->
                        IF d = c THEN {callNo[e] : e \in {x \in Callers \ {c} : Active(x)}}
                        ELSE IF Active(d) THEN overlapped[d] \cup {issued + 1}
                        ELSE overlapped[d]]
    /\ UNCHANGED <<mwKind, nextMode, taskResult>>
    /\ UNCHANGED notAdaptorVars

\* task_tool.go:50-65, the legacy middleware calls the wrapper, which calls next.
\* The write of line 60 and the reads of lines 71-72 are unsynchronised; a racing
\* read of the pointer-sized slot yields the value before or after the write,
\* which is what the interleaving of CallWrapper and ReturnAdapted produces.
CallWrapper(c) ==
    /\ cpc[c] = "middleware"
    /\ mwKind # "skip"
    /\ \E any \in NextReturns(nextMode, callNo[c]) :
          /\ nextOut' = [nextOut EXCEPT ![c] = any]
          /\ wrapOut' = [wrapOut EXCEPT ![c] = WrapperReturn(any)]
          /\ taskResult' = WrapperSlot(any, taskResult)
    /\ cpc' = [cpc EXCEPT ![c] = "wrapped"]
    /\ UNCHANGED <<mwKind, nextMode, callNo, chainOut, out, overlapped, issued>>
    /\ UNCHANGED notAdaptorVars

\* the legacy middleware returns to task_tool.go:67
MiddlewareDone(c) ==
    /\ \/ cpc[c] = "wrapped"
       \/ cpc[c] = "middleware" /\ mwKind = "skip"
    /\ chainOut' = [chainOut EXCEPT ![c] =
                        MiddlewareReturn(mwKind, wrapOut[c], callNo[c])]
    /\ cpc' = [cpc EXCEPT ![c] = "chained"]
    /\ UNCHANGED <<mwKind, nextMode, taskResult, callNo, nextOut, wrapOut, out,
                   overlapped, issued>>
    /\ UNCHANGED notAdaptorVars

\* task_tool.go:68-79, the adapted handler reads the slot and returns
ReturnAdapted(c) ==
    /\ cpc[c] = "chained"
    /\ out' = [out EXCEPT ![c] = AdaptedReturn(chainOut[c], taskResult)]
    /\ cpc' = [cpc EXCEPT ![c] = "returned"]
    /\ UNCHANGED <<mwKind, nextMode, taskResult, callNo, nextOut, wrapOut,
                   chainOut, overlapped, issued>>
    /\ UNCHANGED notAdaptorVars

NextAdaptor ==
    \/ NewAdaptor
    \/ \E c \in Callers : CallAdapted(c)
    \/ \E c \in Callers : CallWrapper(c)
    \/ \E c \in Callers : MiddlewareDone(c)
    \/ \E c \in Callers : ReturnAdapted(c)

\* --------------------------------------------------- after-hook adaptor
\* The *mcp.AnyToolResult values the server may hand to the after hook
HookInputs(n) ==
    {NilPtr, CallToolResult("handler", n), CreateTaskResult(n),
     PtrCallToolResult(n), OtherResult(n)}

\* mutant: the legacy after hook is called for every non-nil result
AfterHookCalls_NoTypeCheck(result) ==
    IF result # NilPtr THEN <<result>> ELSE <<>>

\* task_tool.go:91-97, the arguments of the calls made to hooks.afterCallTool
AfterHookCalls(result) ==
    IF result # NilPtr /\ result.type = "CallToolResult"
    THEN <<result>>
    ELSE <<>>

InitHook == hookTrace = <<>>

\* one invocation of the handler returned by NewTaskToolAfterHookAdaptor
AfterHookAdaptor ==
    /\ Len(hookTrace) < MaxHookRuns
    /\ \E result \in HookInputs(Len(hookTrace) + 1) :
          hookTrace' = Append(hookTrace,
                              [result |-> result, calls |-> AfterHookCalls(result)])
    /\ UNCHANGED notHookVars

NextHook == AfterHookAdaptor


\* ------------------------- binders, forward adaptor, validator (actions)
InitHandlers == runs = <<>>

Record(op, bindOk, h, run) ==
    /\ runs' = Append(runs, [op |-> op, bindOk |-> bindOk, h |-> h,
                             ret |-> run.ret, invoked |-> run.invoked])
    /\ UNCHANGED notHandlerVars

\* one call of the handler NewTypedToolHandler(handler) returns
CallTypedToolHandler ==
    /\ Len(runs) < MaxRuns
    /\ \E bindOk \in BOOLEAN : \E h \in LegacyReturns(Len(runs) + 1) :
          Record("NewTypedToolHandler", bindOk, h,
                 TypedToolHandler(bindOk, h, Len(runs) + 1))

\* one call of the handler NewTypedTaskToolHandler(handler) returns
CallTypedTaskToolHandler ==
    /\ Len(runs) < MaxRuns
    /\ \E bindOk \in BOOLEAN : \E h \in NextReturns("any", Len(runs) + 1) :
          Record("NewTypedTaskToolHandler", bindOk, h,
                 TypedTaskToolHandler(bindOk, h, Len(runs) + 1))

\* one call of the handler NewStructuredToolHandler(handler) returns
CallStructuredToolHandler ==
    /\ Len(runs) < MaxRuns
    /\ \E bindOk \in BOOLEAN : \E h \in StructuredReturns(Len(runs) + 1) :
          Record("NewStructuredToolHandler", bindOk, h,
                 StructuredToolHandler(bindOk, h, Len(runs) + 1))

\* one call of the handler NewStructuredTaskToolHandler(handler) returns
CallStructuredTaskToolHandler ==
    /\ Len(runs) < MaxRuns
    /\ \E bindOk \in BOOLEAN : \E h \in StructuredReturns(Len(runs) + 1) :
          Record("NewStructuredTaskToolHandler", bindOk, h,
                 StructuredTaskToolHandler(bindOk, h, Len(runs) + 1))

\* one call of the handler NewTaskToolAdaptor(handler) returns
CallTaskToolAdaptor ==
    /\ Len(runs) < MaxRuns
    /\ \E h \in LegacyReturns(Len(runs) + 1) :
          Record("NewTaskToolAdaptor", TRUE, h, TaskToolAdaptor(h))

\* one call of ValidateAnyToolResult(value)
CallValidateAnyToolResult ==
    /\ Len(runs) < MaxRuns
    /\ \E value \in HookInputs(Len(runs) + 1) :
          Record("ValidateAnyToolResult", TRUE, Ret(value, NoErr),
                 Run(Ret(NilPtr, ValidateAnyToolResult(value)), 0))

NextHandlers ==
    \/ CallTypedToolHandler
    \/ CallTypedTaskToolHandler
    \/ CallStructuredToolHandler
    \/ CallStructuredTaskToolHandler
    \/ CallTaskToolAdaptor
    \/ CallValidateAnyToolResult

\* ------------------------------------------ claims: binders and adaptors
BinderOps == {"NewTypedToolHandler", "NewTypedTaskToolHandler",
              "NewStructuredToolHandler", "NewStructuredTaskToolHandler"}
RunsOf(ops) == {i \in DOMAIN runs : runs[i].op \in ops}

\* C11: a call whose arguments fail to bind returns an error-flagged
\* Immediate Result with a nil error without invoking the wrapped handler; a
\* call whose arguments bind invokes the wrapped handler exactly once.
C11_BindingFailure ==
    \A i \in RunsOf(BinderOps) :
        IF runs[i].bindOk
        THEN runs[i].invoked = 1
        ELSE /\ runs[i].invoked = 0
             /\ runs[i].ret.err = NoErr
             /\ runs[i].ret.res.type = "CallToolResult"
             /\ IsErrorResult(runs[i].ret.res)

C11_Witness ==
    /\ \E i \in RunsOf({"NewTypedTaskToolHandler"}) : ~runs[i].bindOk
    /\ \E i \in RunsOf({"NewStructuredToolHandler"}) : runs[i].bindOk

\* C13: the forward adaptor invokes the synchronous handler once; it returns
\* (nil, err) on an error, (nil, ErrInvalidToolResult) on no result and no
\* error, and otherwise the result as the ImmediateResult case, nil error.
C13_ForwardAdaptor ==
    \A i \in RunsOf({"NewTaskToolAdaptor"}) :
        LET h == runs[i].h  r == runs[i].ret IN
        /\ runs[i].invoked = 1
        /\ h.err # NoErr => r = Ret(NilPtr, h.err)
        /\ (h.err = NoErr /\ h.res = NilPtr) => r = Ret(NilPtr, "ErrInvalidToolResult")
        /\ (h.err = NoErr /\ h.res # NilPtr)
           => r = Ret([type |-> "CallToolResult", by |-> h.res.by, n |-> h.res.n], NoErr)

C13_Witness ==
    /\ \E i \in RunsOf({"NewTaskToolAdaptor"}) :
          runs[i].h.err = NoErr /\ runs[i].h.res = NilPtr
    /\ \E i \in RunsOf({"NewTaskToolAdaptor"}) :
          runs[i].h.err = NoErr /\ runs[i].h.res # NilPtr

\* C14: ValidateAnyToolResult returns nil for a CallToolResult and for a
\* CreateTaskResult, and ErrInvalidToolResult for a nil pointer and for a
\* value of any other shape.
C14_ValidatorAcceptsTwoShapes ==
    \A i \in RunsOf({"ValidateAnyToolResult"}) :
        LET value == runs[i].h.res  verdict == runs[i].ret.err IN
        IF value # NilPtr /\ value.type \in {"CallToolResult", "CreateTaskResult"}
        THEN verdict = NoErr
        ELSE verdict = "ErrInvalidToolResult"

C14_Witness ==
    /\ \E i \in RunsOf({"ValidateAnyToolResult"}) :
          runs[i].h.res.type = "*CallToolResult"
    /\ \E i \in RunsOf({"ValidateAnyToolResult"}) :
          runs[i].h.res.type = "CreateTaskResult"

\* C19: every result a task-capable binder returns with a nil error on a
\* binding failure (both binders), on a handler failure and on a handler
\* success (structured binder) passes ValidateAnyToolResult.
C19_BinderResultsAreLegal ==
    \A i \in RunsOf({"NewTypedTaskToolHandler", "NewStructuredTaskToolHandler"}) :
        ( /\ runs[i].ret.err = NoErr
          /\ \/ ~runs[i].bindOk
             \/ runs[i].op = "NewStructuredTaskToolHandler" )
        => ValidateAnyToolResult(runs[i].ret.res) = NoErr

\* ------------------------------------------------ claims: middleware adaptor
Returned(c) == cpc[c] = "returned"

\* C1: in a call that overlaps no other call of the same handler and whose
\* inner handler returned an ImmediateResult, the adapted handler returns the
\* legacy chain's synchronous result, whatever earlier calls returned.
C1_FreshSlotPerCall ==
    \A c \in Callers :
        ( /\ Returned(c)
          /\ overlapped[c] = {}
          /\ nextOut[c].res.type = "CallToolResult"
          /\ chainOut[c].err = NoErr
          /\ chainOut[c].res # NilPtr )
        => out[c] = chainOut[c]

\* C2: a call never returns the TaskHandle captured by another call of the
\* same handler that ran concurrently with it.
C2_NoSharedSlot ==
    \A c \in Callers :
        (Returned(c) /\ out[c].res.type = "CreateTaskResult")
        => out[c].res.n \notin overlapped[c]

\* C3: when the inner handler of a call returned a TaskHandle and the legacy
\* chain returned without error, the adapted handler returns that TaskHandle.
C3_TaskCapture ==
    \A c \in Callers :
        ( /\ Returned(c)
          /\ nextOut[c].err = NoErr
          /\ nextOut[c].res.type = "CreateTaskResult"
          /\ chainOut[c].err = NoErr )
        => out[c] = Ret(nextOut[c].res, NoErr)

\* C4: around a pass-through middleware, a handler that always returns an
\* ImmediateResult gets the same result and error from the adapted handler
\* as from a direct call, on every call.
C4_Transparency ==
    \A c \in Callers :
        (Returned(c) /\ nextMode = "immediate" /\ mwKind = "pass")
        => out[c] = nextOut[c]

C4_Witness ==
    \E c \in Callers :
        /\ Returned(c) /\ nextMode = "immediate" /\ mwKind = "pass"
        /\ overlapped[c] # {}
        /\ callNo[c] > 1
        /\ out[c] = Ret(CallToolResult("handler", callNo[c]), NoErr)

\* C20: when a handler built by NewStructuredTaskToolHandler succeeds behind
\* the middleware adaptor and a pass-through middleware, the caller receives
\* the handler's structured result and not the empty placeholder.
C20_StructuredPassThrough ==
    \A c \in Callers :
        ( /\ Returned(c) /\ nextMode = "structured" /\ mwKind = "pass"
          /\ nextOut[c].err = NoErr
          /\ nextOut[c].res.by = "structured" )
        => /\ out[c].err = NoErr
           /\ out[c].res # NilPtr
           /\ out[c].res.by = "structured"
           /\ out[c].res.n = nextOut[c].res.n

\* ------------------------------------------------ claims: after-hook adaptor
\* C10: the adapted after hook calls the legacy after hook exactly once, with
\* the result, for an ImmediateResult, and not at all for a TaskHandle or nil.
C10_AfterHookSuppression ==
    \A i \in DOMAIN hookTrace :
        LET h == hookTrace[i] IN
        /\ h.result.type \in {"CreateTaskResult", "nil"} => Len(h.calls) = 0
        /\ h.result.type = "CallToolResult" => h.calls = <<h.result>>

C10_Witness ==
    /\ \E i \in DOMAIN hookTrace : hookTrace[i].result.type = "CreateTaskResult"
    /\ \E i \in DOMAIN hookTrace : hookTrace[i].result.type = "CallToolResult"
    /\ \E i \in DOMAIN hookTrace : hookTrace[i].result = NilPtr


\* ------------------------------------------------------ espresso: values
DefaultRecipient == "anonymous customer"
TaskId == "task-1"

\* EspressoArgs as bound from the request; Shots, Temperature and Preinfusion
\* only set durations and the text of the payload
EspressoArgSet == [roast : {"", "dark"}, recipient : {"", "bob"}]

\* ElicitationResult.Content: nil, a value that is no map, or a
\* map[string]any without customerName, with a non-string one, with a string
Contents ==
    {[isMap |-> FALSE, has |-> FALSE, isStr |-> FALSE, name |-> ""],
     [isMap |-> TRUE,  has |-> FALSE, isStr |-> FALSE, name |-> ""],
     [isMap |-> TRUE,  has |-> TRUE,  isStr |-> FALSE, name |-> ""],
     [isMap |-> TRUE,  has |-> TRUE,  isStr |-> TRUE,  name |-> "alice"]}
NoContent == [isMap |-> FALSE, has |-> FALSE, isStr |-> FALSE, name |-> ""]
Responses == [action : {"accept", "decline", "cancel"}, content : Contents]
NoResponse == [action |-> "none", content |-> NoContent]

NoPayload == [type |-> "none", recipient |-> ""]
NoExit == [at |-> "none", why |-> "none"]

\* task_tool.go:25-31
ValidateTaskPayload(value) ==
    IF value.type = "*CallToolResult" THEN NoErr ELSE "ErrInvalidResultPayload"

\* part_001:106-112, 132, 176: where the goroutine waits
SuspensionPoints == {"warmup", "select", "awaiting", "pull"}

\* ------------------------------------------- Task Manager (collaborator)
Terminal == {"completed", "failed", "cancelled"}

\* why the Task Manager rejects a transition ("ok": it does not)
Rejection(valid) ==
    IF reaped THEN "reaped"
    ELSE IF taskStatus \in Terminal THEN "terminal"
    ELSE IF ~valid THEN "payload"
    ELSE "ok"

\* FailTask / CompleteTask / CancelTask issued by `by`: the first terminal
\* transition wins, later ones are rejected; CancelTask cancels the context
Transition(op, by, target, valid) ==
    LET why == Rejection(valid) IN
    /\ taskStatus' = IF why = "ok" THEN target ELSE taskStatus
    /\ ctxDone' = IF why = "ok" /\ op = "CancelTask" THEN TRUE ELSE ctxDone
    /\ tmCalls' = Append(tmCalls,
                         [op |-> op, by |-> by, why |-> why,
                          afterCancelAt |-> cancelAt])
    /\ UNCHANGED <<reaped, cancelAt>>

NoTransition == UNCHANGED <<taskStatus, reaped, ctxDone, cancelAt, tmCalls>>

\* log.Fatalf calls os.Exit(1): nothing of the process runs any more
Running == exit.at = "none"

\* tasks/cancel from the client: the task becomes Cancelled, its context done
ClientCancel ==
    /\ Running
    /\ taskStatus \in {"working", "input_required"}
    /\ ~reaped
    /\ taskStatus' = "cancelled"
    /\ ctxDone' = TRUE
    /\ cancelAt' = wpc
    /\ UNCHANGED <<eargs, hpc, hret, wpc, recipient, elicited, payload, exit,
                   reaped, tmCalls>>
    /\ UNCHANGED notEspressoVars

\* TTL expiry or end of the retention window: the task is reaped
Reap ==
    /\ Running
    /\ taskStatus # "none"
    /\ ~reaped
    /\ reaped' = TRUE
    /\ UNCHANGED <<eargs, hpc, hret, wpc, recipient, elicited, payload, exit,
                   taskStatus, ctxDone, cancelAt, tmCalls>>
    /\ UNCHANGED notEspressoVars

\* --------------------------------------------------- espressoHandler
InitEspresso ==
    /\ eargs = [roast |-> "", recipient |-> ""]
    /\ hpc = "idle"
    /\ hret = NoRet
    /\ wpc = "unspawned"
    /\ recipient = ""
    /\ elicited = NoResponse
    /\ payload = NoPayload
    /\ exit = NoExit
    /\ taskStatus = "none"
    /\ reaped = FALSE
    /\ ctxDone = FALSE
    /\ cancelAt = "none"
    /\ tmCalls = <<>>

\* part_001:86-90, the handler is called and creates the task
H_CreateTask ==
    /\ Running
    /\ hpc = "idle"
    /\ eargs' \in EspressoArgSet
    /\ taskStatus' = "working"
    /\ hpc' = "created"
    /\ UNCHANGED <<hret, wpc, recipient, elicited, payload, exit, reaped,
                   ctxDone, cancelAt, tmCalls>>
    /\ UNCHANGED notEspressoVars

\* part_001:91-95, setup failure: FailTask, and its error is returned
H_FailTask ==
    /\ Running
    /\ hpc = "created"
    /\ eargs.roast = ""
    /\ Transition("FailTask", "handler", "failed", TRUE)
    /\ IF Rejection(TRUE) # "ok"
       THEN hpc' = "returned" /\ hret' = Ret(NilPtr, "failTaskErr")
       ELSE hpc' = "reported" /\ hret' = hret
    /\ UNCHANGED <<eargs, wpc, recipient, elicited, payload, exit>>
    /\ UNCHANGED notEspressoVars

\* part_001:96-98, go makeEspresso(taskCtx, args, taskId)
H_Spawn ==
    /\ Running
    /\ hpc = "created"
    /\ eargs.roast # ""
    /\ wpc' = "warmup"
    /\ recipient' = eargs.recipient
    /\ hpc' = "spawned"
    /\ NoTransition
    /\ UNCHANGED <<eargs, hret, elicited, payload, exit>>
    /\ UNCHANGED notEspressoVars

\* mutant: the handler hands the handle back only once the worker is done
H_Return_AwaitsWorker ==
    /\ Running
    /\ hpc \in {"reported", "spawned"}
    /\ wpc \in {"unspawned", "returned"}
    /\ hret' = Ret([type |-> "CreateTaskResult", by |-> "handler", n |-> TaskId], NoErr)
    /\ hpc' = "returned"
    /\ NoTransition
    /\ UNCHANGED <<eargs, wpc, recipient, elicited, payload, exit>>
    /\ UNCHANGED notEspressoVars

\* part_001:100, return result.ToAnyResult(), nil
H_Return ==
    /\ Running
    /\ hpc \in {"reported", "spawned"}
    /\ hret' = Ret([type |-> "CreateTaskResult", by |-> "handler", n |-> TaskId], NoErr)
    /\ hpc' = "returned"
    /\ NoTransition
    /\ UNCHANGED <<eargs, wpc, recipient, elicited, payload, exit>>
    /\ UNCHANGED notEspressoVars

\* ------------------------------------------------ makeEspresso goroutine
\* part_001:107, time.Sleep(warm-up) ends
W_WarmupSleep ==
    /\ Running
    /\ wpc = "warmup"
    /\ wpc' = "select"
    /\ NoTransition
    /\ UNCHANGED <<eargs, hpc, hret, recipient, elicited, payload, exit>>
    /\ UNCHANGED notEspressoVars

\* part_001:108-110, the select is woken by ctx.Done() and the goroutine returns
W_SelectCancelled ==
    /\ Running
    /\ wpc = "select"
    /\ ctxDone
    /\ wpc' = "returned"
    /\ NoTransition
    /\ UNCHANGED <<eargs, hpc, hret, recipient, elicited, payload, exit>>
    /\ UNCHANGED notEspressoVars

\* the entry of tmCalls for the RequestInput call of part_001:132
RequestInputCall ==
    [op |-> "RequestInput", by |-> "worker", why |-> Rejection(TRUE),
     afterCancelAt |-> cancelAt]

\* mutant: the timer case is taken although the context is done
W_SelectTimer_IgnoresCancel ==
    /\ Running
    /\ wpc = "select"
    /\ IF recipient = ""
       THEN /\ wpc' = "awaiting"
            /\ taskStatus' = IF Rejection(TRUE) = "ok" THEN "input_required"
                             ELSE taskStatus
            /\ tmCalls' = Append(tmCalls, RequestInputCall)
       ELSE /\ wpc' = "pull"
            /\ taskStatus' = taskStatus
            /\ tmCalls' = tmCalls
    /\ UNCHANGED <<reaped, ctxDone, cancelAt>>
    /\ UNCHANGED <<eargs, hpc, hret, recipient, elicited, payload, exit>>
    /\ UNCHANGED notEspressoVars

\* part_001:111-132, the select is woken by the timer (the context is not
\* done: a parked select takes the case of the first channel to fire); with no
\* recipient the goroutine calls RequestInput, which suspends the task
W_SelectTimer ==
    /\ Running
    /\ wpc = "select"
    /\ ~ctxDone
    /\ IF recipient = ""
       THEN /\ wpc' = "awaiting"
            /\ taskStatus' = IF Rejection(TRUE) = "ok" THEN "input_required"
                             ELSE taskStatus
            /\ tmCalls' = Append(tmCalls, RequestInputCall)
       ELSE /\ wpc' = "pull"
            /\ taskStatus' = taskStatus
            /\ tmCalls' = tmCalls
    /\ UNCHANGED <<reaped, ctxDone, cancelAt>>
    /\ UNCHANGED <<eargs, hpc, hret, recipient, elicited, payload, exit>>
    /\ UNCHANGED notEspressoVars

\* part_001:132, RequestInput returns the client's response
W_InputResponse ==
    /\ Running
    /\ wpc = "awaiting"
    /\ ~ctxDone
    /\ taskStatus = "input_required"
    /\ ~reaped
    /\ elicited' \in Responses
    /\ taskStatus' = "working"
    /\ wpc' = "gotInput"
    /\ UNCHANGED <<reaped, ctxDone, cancelAt, tmCalls>>
    /\ UNCHANGED <<eargs, hpc, hret, recipient, payload, exit>>
    /\ UNCHANGED notEspressoVars

\* part_001:132-136, RequestInput returns an error (context cancelled, task
\* gone, transport failure): FailTask, then log.Fatalf ends the process
W_InputError ==
    /\ Running
    /\ wpc = "awaiting"
    /\ Transition("FailTask", "worker", "failed", TRUE)
    /\ exit' = [at |-> "RequestInput", why |-> "error"]
    /\ wpc' = "exited"
    /\ UNCHANGED <<eargs, hpc, hret, recipient, elicited, payload>>
    /\ UNCHANGED notEspressoVars

\* mutant: the cancel case does not return and goes on to the content checks
W_HandleAction_CancelFallsThrough ==
    /\ Running
    /\ wpc = "gotInput"
    /\ IF elicited.action = "cancel"
       THEN Transition("CancelTask", "worker", "cancelled", TRUE)
       ELSE NoTransition
    /\ wpc' = "checkMap"
    /\ recipient' = IF elicited.action = "decline" THEN DefaultRecipient
                    ELSE recipient
    /\ UNCHANGED <<eargs, hpc, hret, elicited, payload, exit>>
    /\ UNCHANGED notEspressoVars

\* part_001:139-148, switch result.Action
W_HandleAction ==
    /\ Running
    /\ wpc = "gotInput"
    /\ CASE elicited.action = "cancel" ->
              /\ Transition("CancelTask", "worker", "cancelled", TRUE)
              /\ wpc' = "returned"
              /\ recipient' = recipient
         [] elicited.action = "decline" ->
              /\ NoTransition
              /\ wpc' = "checkMap"
              /\ recipient' = DefaultRecipient
         [] elicited.action = "accept" ->
              /\ NoTransition
              /\ wpc' = "checkMap"
              /\ recipient' = recipient
    /\ UNCHANGED <<eargs, hpc, hret, elicited, payload, exit>>
    /\ UNCHANGED notEspressoVars

\* part_001:150-155, data, ok := result.Content.(map[string]any)
W_CheckMap ==
    /\ Running
    /\ wpc = "checkMap"
    /\ IF ~elicited.content.isMap
       THEN Transition("FailTask", "worker", "failed", TRUE)
       ELSE NoTransition
    /\ wpc' = "checkName"
    /\ UNCHANGED <<eargs, hpc, hret, recipient, elicited, payload, exit>>
    /\ UNCHANGED notEspressoVars

\* part_001:157-162, customerName, exists := data["customerName"]
W_CheckName ==
    /\ Running
    /\ wpc = "checkName"
    /\ IF ~(elicited.content.isMap /\ elicited.content.has)
       THEN Transition("FailTask", "worker", "failed", TRUE)
       ELSE NoTransition
    /\ wpc' = "checkString"
    /\ UNCHANGED <<eargs, hpc, hret, recipient, elicited, payload, exit>>
    /\ UNCHANGED notEspressoVars

\* the string customerName of a response content, if it holds one
NameIsString(content) == content.isMap /\ content.has /\ content.isStr

\* part_001:163, args.Recipient, ok = customerName.(string)
AssertedRecipient(content) == IF NameIsString(content) THEN content.name ELSE ""

\* part_001:163-168
W_CheckString ==
    /\ Running
    /\ wpc = "checkString"
    /\ recipient' = AssertedRecipient(elicited.content)
    /\ IF ~NameIsString(elicited.content)
       THEN Transition("FailTask", "worker", "failed", TRUE)
       ELSE NoTransition
    /\ wpc' = "pull"
    /\ UNCHANGED <<eargs, hpc, hret, elicited, payload, exit>>
    /\ UNCHANGED notEspressoVars

\* part_001:172-182, time.Sleep(seconds) ends and the payload is built
W_PullShot ==
    /\ Running
    /\ wpc = "pull"
    /\ payload' = [type |-> "CallToolResult", recipient |-> recipient]
    /\ wpc' = "complete"
    /\ NoTransition
    /\ UNCHANGED <<eargs, hpc, hret, recipient, elicited, exit>>
    /\ UNCHANGED notEspressoVars

\* part_001:183, CompleteTask(ctx, taskId, &result); the Task Manager may or
\* may not apply ValidateTaskPayload to the submitted payload
W_CompleteTask ==
    /\ Running
    /\ wpc = "complete"
    /\ \E validates \in BOOLEAN :
          LET valid == ~validates \/ ValidateTaskPayload(payload) = NoErr IN
          /\ Transition("CompleteTask", "worker", "completed", valid)
          /\ IF Rejection(valid) = "ok"
             THEN wpc' = "returned" /\ exit' = exit
             ELSE /\ wpc' = "completeFailed"
                  /\ exit' = [at |-> "none", why |-> Rejection(valid)]
    /\ UNCHANGED <<eargs, hpc, hret, recipient, elicited, payload>>
    /\ UNCHANGED notEspressoVars

\* part_001:184-185, CompleteTask failed: FailTask, then log.Fatalf ends the
\* process
W_CompleteFailed ==
    /\ Running
    /\ wpc = "completeFailed"
    /\ Transition("FailTask", "worker", "failed", TRUE)
    /\ exit' = [at |-> "CompleteTask", why |-> exit.why]
    /\ wpc' = "exited"
    /\ UNCHANGED <<eargs, hpc, hret, recipient, elicited, payload>>
    /\ UNCHANGED notEspressoVars

NextEspresso ==
    \/ H_CreateTask
    \/ H_FailTask
    \/ H_Spawn
    \/ H_Return
    \/ W_WarmupSleep
    \/ W_SelectCancelled
    \/ W_SelectTimer
    \/ W_InputResponse
    \/ W_InputError
    \/ W_HandleAction
    \/ W_CheckMap
    \/ W_CheckName
    \/ W_CheckString
    \/ W_PullShot
    \/ W_CompleteTask
    \/ W_CompleteFailed
    \/ ClientCancel
    \/ Reap

\* ------------------------------------------------------ claims: espresso
WorkerCalls(op) ==
    {i \in DOMAIN tmCalls : tmCalls[i].by = "worker" /\ tmCalls[i].op = op}
HandlerCalls(op) ==
    {i \in DOMAIN tmCalls : tmCalls[i].by = "handler" /\ tmCalls[i].op = op}

\* C5: after a decline response the recipient is the default string, the
\* payload submitted to CompleteTask carries it, and no FailTask call precedes
\* the CompleteTask call.
C5_DeclineUsesDefault ==
    (elicited.action = "decline" /\ wpc # "gotInput")
    => /\ wpc \in {"pull", "complete"} => recipient = DefaultRecipient
       /\ payload # NoPayload => payload.recipient = DefaultRecipient
       /\ \A i \in WorkerCalls("FailTask") :
             \E j \in WorkerCalls("CompleteTask") : j < i

\* C6: once the task context was cancelled while the worker was at a
\* suspension point, the worker issues no FailTask, CompleteTask or
\* CancelTask call.
C6_NoCallAfterCancel ==
    \A i \in DOMAIN tmCalls :
        tmCalls[i].by = "worker" => tmCalls[i].afterCancelAt \notin SuspensionPoints

\* C7: having created the task, espressoHandler returns the task handle with
\* a nil error, whatever FailTask answered.
C7_HandlerNeverRaises ==
    hpc = "returned"
    => hret = Ret([type |-> "CreateTaskResult", by |-> "handler", n |-> TaskId], NoErr)

\* C8: a FailTask, CompleteTask or CancelTask call rejected because the task
\* is terminal or reaped does not end the process.
C8_RejectionIsGraceful ==
    ~(exit.at = "CompleteTask" /\ exit.why \in {"terminal", "reaped"})

\* C9: when roast is empty the handler calls FailTask exactly once, spawns no
\* worker and returns the TaskHandle of CreateTask.
C9_SetupFailure ==
    (hpc = "returned" /\ eargs.roast = "")
    => /\ Cardinality(HandlerCalls("FailTask")) = 1
       /\ wpc = "unspawned"
       /\ hret = Ret([type |-> "CreateTaskResult", by |-> "handler", n |-> TaskId], NoErr)

\* C12: the completion value the worker submits to CompleteTask is accepted
\* by ValidateTaskPayload.
C12_PayloadIsValid ==
    WorkerCalls("CompleteTask") # {} => ValidateTaskPayload(payload) = NoErr

\* C15: once espressoHandler has created the task it reaches its return, with
\* no step of the worker needed (the process ending is the only other way out).
C15_HandlerDoesNotBlock ==
    (hpc = "created") ~> (hpc = "returned" \/ wpc = "exited")

C15_Witness ==
    /\ hpc = "returned"
    /\ hret.err = NoErr
    /\ wpc = "warmup"

\* C16: when the task is cancelled before the timer of the warm-up wait
\* fires, the worker returns from the select and issues no FailTask,
\* CompleteTask, CancelTask or RequestInput.
C16_CancelBeforeTimer ==
    (cancelAt \in {"unspawned", "warmup", "select"})
    => /\ wpc \in {"unspawned", "warmup", "select", "returned"}
       /\ \A i \in DOMAIN tmCalls : tmCalls[i].by # "worker"

C16_Witness ==
    /\ wpc = "returned"
    /\ cancelAt \in {"warmup", "select"}

\* C17: after a cancel response the worker has called CancelTask once and
\* has stopped, with no FailTask or CompleteTask call, whether CancelTask was
\* accepted or rejected.
C17_ElicitationCancel ==
    (elicited.action = "cancel" /\ wpc # "gotInput")
    => /\ wpc = "returned"
       /\ Cardinality(WorkerCalls("CancelTask")) = 1
       /\ WorkerCalls("FailTask") = {}
       /\ WorkerCalls("CompleteTask") = {}

C17_Witness ==
    /\ elicited.action = "cancel"
    /\ wpc = "returned"
    /\ \E i \in WorkerCalls("CancelTask") : tmCalls[i].why # "ok"

\* C18: after a FailTask call of the worker that the Task Manager accepted,
\* the worker issues no further FailTask and no CompleteTask.
C18_NoWorkAfterFail ==
    \A i \in WorkerCalls("FailTask") :
        tmCalls[i].why = "ok"
        => \A j \in WorkerCalls("FailTask") \cup WorkerCalls("CompleteTask") :
              j <= i

\* ------------------------------------------------------- specifications
\* The middleware adaptor, the after-hook adaptor, the espresso example and
\* the stateless handler constructors share no state: each is checked under
\* its own next-state relation.
vars == <<adaptorVars, hookVars, espressoVars, handlerVars>>

Init == InitAdaptor /\ InitHook /\ InitEspresso /\ InitHandlers

SpecAdaptor == Init /\ [][NextAdaptor]_vars
SpecHook == Init /\ [][NextHook]_vars
SpecEspresso == Init /\ [][NextEspresso]_vars
SpecHandlers == Init /\ [][NextHandlers]_vars

\* The handler runs on the request's goroutine, which the Go scheduler keeps
\* running; nothing is assumed about the worker goroutine or the client.
SpecEspressoHandlerFair ==
    /\ SpecEspresso
    /\ WF_vars(H_FailTask)
    /\ WF_vars(H_Spawn)
    /\ WF_vars(H_Return)

====
